---- MODULE Spec2Model ----
(***************************************************************************)
(* Two-replica PIR demo, real_pir_protocol.cpp: main() runs one query      *)
(* (setup_server_database, the index prompt, client_generate_query,        *)
(* server_process_query, client_reconstruct_video) over the files of the   *)
(* working directory: the share folders D0 and D1, the mask files r1.txt   *)
(* and r2.txt, retrieved_video.bits and reconstructed_video.mp4.           *)
(***************************************************************************)
EXTENDS Integers, Sequences, FiniteSets, TLC

\* ------------------------------------------------------------- bounds
\* Most bits the database holds, all records together.
MaxBits == 1
\* Most entries the D0 folder holds.
MaxFiles == 2
\* Most runs of main() over the same working directory.
MaxRuns == 2

Bit == {0, 1}

BitSeqs(n) == UNION {[1..k -> Bit] : k \in 0..n}

Min(a, b) == IF a < b THEN a ELSE b

Max(a, b) == IF a < b THEN b ELSE a

\* ------------------------------------------------------- file names
\* The entries a D0 folder is populated from: two well-formed share files, a
\* share file whose name is the bare suffix, a text file that is no share,
\* and a sub-directory carrying a share file's name.
Names == {"a.binary.txt", "b.binary.txt", ".binary.txt", "c.txt", "d.binary.txt"}

DirNames == {"d.binary.txt"}

\* The characters of a file name (std::string of path::filename()).
CharsOf(name) ==
    CASE name = "a.binary.txt" -> <<"a", ".", "b", "i", "n", "a", "r", "y", ".", "t", "x", "t">>
      [] name = "b.binary.txt" -> <<"b", ".", "b", "i", "n", "a", "r", "y", ".", "t", "x", "t">>
      [] name = "d.binary.txt" -> <<"d", ".", "b", "i", "n", "a", "r", "y", ".", "t", "x", "t">>
      [] name = ".binary.txt" -> <<".", "b", "i", "n", "a", "r", "y", ".", "t", "x", "t">>
      [] name = "c.txt" -> <<"c", ".", "t", "x", "t">>

NameTable == [name \in Names |-> CharsOf(name)]

NameChars(name) == NameTable[name]

\* The character codes std::string comparison orders by.
CharCode(c) ==
    CASE c = "." -> 46 [] c = "a" -> 97 [] c = "b" -> 98 [] c = "c" -> 99
      [] c = "d" -> 100 [] c = "i" -> 105 [] c = "n" -> 110 [] c = "r" -> 114
      [] c = "t" -> 116 [] c = "x" -> 120 [] c = "y" -> 121

BinaryTxtSuffix == <<".", "b", "i", "n", "a", "r", "y", ".", "t", "x", "t">>

\* name.substr(name.size() - k), for k <= name.size().
Suffix(s, k) == SubSeq(s, Len(s) - k + 1, Len(s))

\* fs::path::extension() of a file name: from its last dot on; empty when the
\* name has no dot, or only a leading one.
extension(name) ==
    LET s == NameChars(name)
        dots == {i \in 1..Len(s) : s[i] = "."}
        last == CHOOSE i \in dots : \A j \in dots : j <= i
    IN  IF dots = {} \/ last = 1 THEN <<>> ELSE SubSeq(s, last, Len(s))

\* The names with name.size() >= 11 && name.substr(name.size() - 11) ==
\* ".binary.txt".
BinaryTxtNames ==
    {n \in Names : Len(NameChars(n)) >= 11 /\ Suffix(NameChars(n), 11) = BinaryTxtSuffix}

\* std::string operator< : lexicographic by character code.
RECURSIVE CharsLess(_, _)
CharsLess(s, t) ==
    IF t = <<>> THEN FALSE
    ELSE IF s = <<>> THEN TRUE
    ELSE IF CharCode(Head(s)) # CharCode(Head(t)) THEN CharCode(Head(s)) < CharCode(Head(t))
    ELSE CharsLess(Tail(s), Tail(t))

\* fs::path operator< on two paths D0/<name>: the folder is the same element,
\* the file names decide.
PathLess(m, n) == CharsLess(NameChars(m), NameChars(n))

\* std::sort of a list of paths D0/<name>, given as the set of its names.
RECURSIVE SortSet(_)
SortSet(S) ==
    IF S = {} THEN <<>>
    ELSE LET least == CHOOSE m \in S : \A n \in S \ {m} : PathLess(m, n)
         IN  <<least>> \o SortSet(S \ {least})

SortTable == [S \in SUBSET Names |-> SortSet(S)]

SortNames(S) == SortTable[S]

\* The orders in which fs::directory_iterator may hand out a set of entries:
\* the order is unspecified.
Enumerations(S) ==
    {q \in [1..Cardinality(S) -> S] : \A i, j \in 1..Cardinality(S) : i # j => q[i] # q[j]}

\* ------------------------------------------------------------ files
D0PathTable == [name \in Names |-> "D0/" \o name]

D1PathTable == [name \in Names |-> "D1/" \o name]

\* d0 / name and d1 / name.
D0Path(name) == D0PathTable[name]

D1Path(name) == D1PathTable[name]

\* r1 saved under the name of a share file of D0.
R1PathInStore == D0Path("a.binary.txt")

R1Path == "r1.txt"

R2Path == "r2.txt"

BitsPath == "retrieved_video.bits"

VideoPath == "reconstructed_video.mp4"

CwdPaths == {R1Path, R2Path, BitsPath, VideoPath}

SharePaths == {D0Path(n) : n \in Names} \cup {D1Path(n) : n \in Names}

AllPaths == {"D0"} \cup SharePaths \cup CwdPaths

NoFile == [kind |-> "none", data |-> <<>>]

Directory == [kind |-> "dir", data |-> <<>>]

RegularFile(data) == [kind |-> "file", data |-> data]

\* ------------------------------------------------- bits and bytes
Xor(a, b) == (a + b) % 2

\* Bitwise XOR of two bit sequences of one length.
XorSeq(s, t) == [j \in 1..Len(s) |-> Xor(s[j], t[j])]

\* writeBitsFile's text: one character per bit, '1' for a non-zero entry.
BitsToText(bits) == [j \in 1..Len(bits) |-> IF bits[j] # 0 THEN "1" ELSE "0"]

\* readBitsFile's parse: the '0' and '1' characters in order, every other
\* character skipped.
RECURSIVE TextToBits(_)
TextToBits(text) ==
    IF text = <<>> THEN <<>>
    ELSE IF Head(text) = "0" THEN <<0>> \o TextToBits(Tail(text))
    ELSE IF Head(text) = "1" THEN <<1>> \o TextToBits(Tail(text))
    ELSE TextToBits(Tail(text))

Pow2(k) == CASE k = 0 -> 1 [] k = 1 -> 2 [] k = 2 -> 4 [] k = 3 -> 8
             [] k = 4 -> 16 [] k = 5 -> 32 [] k = 6 -> 64 [] k = 7 -> 128

RECURSIVE SumTo(_, _)
SumTo(f, k) == IF k < 0 THEN 0 ELSE f[k] + SumTo(f, k - 1)

\* The bytes of a bit sequence, most significant bit first, the last byte
\* padded with zero bits.
PackBits(bits) ==
    [b \in 1..((Len(bits) + 7) \div 8) |->
        SumTo([k \in 0..7 |->
                 LET idx == 8 * (b - 1) + k + 1
                 IN  (IF idx <= Len(bits) THEN bits[idx] % 2 ELSE 0) * Pow2(7 - k)], 7)]

\* The bytes of a bits text: a character counts as 1 when it is '1', as 0
\* otherwise, and none is skipped.
PackText(text) ==
    [b \in 1..((Len(text) + 7) \div 8) |->
        SumTo([k \in 0..7 |->
                 LET idx == 8 * (b - 1) + k + 1
                 IN  (IF idx <= Len(text) /\ text[idx] = "1" THEN 1 ELSE 0) * Pow2(7 - k)], 7)]

\* ------------------------------------------------------------ state
VARIABLES
    fs,            \* the files: path -> [kind, data]
    unreadable,    \* the paths that exist and cannot be opened for reading
    unwritable,    \* the paths that cannot be opened for writing
    Record,        \* the database the shares were split from: name -> bits
    runs,          \* how many times main() was started
    pc,            \* where main() stands
    videoFiles,    \* main's videoFiles
    stdin,         \* what is typed at the prompt and not read yet
    targetIndex,   \* main's targetIndex
    query,         \* main's query
    serverResp,    \* main's serverResp: <<>> before the call, <<bits>> after
    accessLog,     \* the share reads of server_process_query: <<index, folder>>
    files,         \* client_decode_pir_result's files
    decoded,       \* client_reconstruct_video's decoded: <<>> or <<bits>>
    outcome,       \* how the run ended
    failures       \* the storage and file failures the run met

vars == <<fs, unreadable, unwritable, Record, runs, pc, videoFiles, stdin, targetIndex, query,
          serverResp, accessLog, files, decoded, outcome, failures>>

run_vars == <<videoFiles, stdin, targetIndex, query, serverResp, accessLog,
              files, decoded, failures>>

\* fs::exists(path), over the files f.
exists(f, path) == f[path].kind # "none"

is_regular_file(f, path) == f[path].kind = "file"

\* The entries fs::directory_iterator(D0) yields, over the files f.
D0Entries(f) == {n \in Names : exists(f, D0Path(n))}

\* ------------------------------------------------------- file steps
\* readBitsFile: [ok, bits]; the open fails on a missing or unreadable file.
readBitsFile(f, path) ==
    IF f[path].kind # "file" \/ path \in unreadable
    THEN [ok |-> FALSE, bits |-> <<>>]
    ELSE [ok |-> TRUE, bits |-> TextToBits(f[path].data)]

\* Whether std::ofstream opens the path (writeBitsFile, writeBitsAsBinaryVideo
\* and convertBitsFileToBinaryVideo return false when it does not).
opens_for_writing(path) == path \notin unwritable

\* The files after writeBitsFile(path, bits) returned true.
writeBitsFile(f, path, bits) == [f EXCEPT ![path] = RegularFile(BitsToText(bits))]

\* The files after writeBitsAsBinaryVideo(path, bits) returned true.
writeBitsAsBinaryVideo(f, path, bits) == [f EXCEPT ![path] = RegularFile(PackBits(bits))]

\* The files after convertBitsFileToBinaryVideo(bitsPath, outVideoPath)
\* returned true.
convertBitsFileToBinaryVideo(f, bitsPath, outVideoPath) ==
    [f EXCEPT ![outVideoPath] = RegularFile(PackText(f[bitsPath].data))]

\* ------------------------------------------------- the share store
\* The names a share file carries: a regular file ending in .binary.txt.
IsShareName(n) == n \notin DirNames /\ n \in BinaryTxtNames

\* ShareStore.split: ShareA is the random sequence, ShareB the record XOR it.
split(record, random) == [ShareA |-> random, ShareB |-> XorSeq(record, random)]

\* The files of a fresh working directory whose D0 folder holds the entries
\* S: per record the two shares, under one name in D0 and D1.
StoreFiles(d0there, S, rec, rnd) ==
    [p \in AllPaths |->
        IF p = "D0" THEN (IF d0there THEN Directory ELSE NoFile)
        ELSE IF \E n \in S : p = D0Path(n)
        THEN LET n == CHOOSE m \in S : p = D0Path(m)
             IN  IF n \in DirNames THEN Directory
                 ELSE IF IsShareName(n)
                 THEN RegularFile(BitsToText(split(rec[n], rnd[n]).ShareA))
                 ELSE RegularFile(<<"1">>)
        ELSE IF \E n \in S : IsShareName(n) /\ p = D1Path(n)
        THEN LET n == CHOOSE m \in S : p = D1Path(m)
             IN  RegularFile(BitsToText(split(rec[n], rnd[n]).ShareB))
        ELSE NoFile]

\* What may be typed at the prompt: a number that fits an int ("int"), in or
\* out of the range of the videos; a number above the largest int ("huge");
\* a word that is no number ("word").
Tokens ==
    {[kind |-> "int", value |-> v] : v \in -1..MaxFiles}
        \cup {[kind |-> "huge", value |-> 0], [kind |-> "word", value |-> 0]}

\* The state main() starts from, whatever the files are.
InitRun ==
    /\ runs = 1
    /\ pc = "setup"
    /\ videoFiles = <<>>
    /\ \E tok \in Tokens : stdin = <<tok>>
    /\ targetIndex = 0
    /\ query = <<>>
    /\ serverResp = <<>>
    /\ accessLog = <<>>
    /\ files = <<>>
    /\ decoded = <<>>
    /\ outcome = "running"
    /\ failures = {}

\* The setups of a database over the names N holding at most budget bits:
\* per name a record and the random sequence its split draws.
RECURSIVE Setups(_, _)
Setups(N, budget) ==
    IF N = {} THEN {<<>>}
    ELSE LET n == CHOOSE m \in N : TRUE
         IN  UNION {
               UNION {
                 {(n :> [record |-> rec, random |-> rnd]) @@ rest :
                    rest \in Setups(N \ {n}, budget - len),
                    rec \in [1..len -> Bit]} :
                 rnd \in [1..len -> Bit]} :
               len \in 0..budget}

\* A store as the setup leaves it: every share file present, readable and
\* writable files around it.
InitStore ==
    \E d0there \in BOOLEAN :
    \E S \in {T \in SUBSET Names : Cardinality(T) <= MaxFiles /\ (~d0there => T = {})} :
    \E setup \in Setups({n \in S : IsShareName(n)}, MaxBits) :
        LET rec == [n \in {m \in S : IsShareName(m)} |-> setup[n].record]
            rnd == [n \in {m \in S : IsShareName(m)} |-> setup[n].random]
        IN  /\ Record = rec
            /\ fs = StoreFiles(d0there, S, rec, rnd)
            /\ unreadable = {}
            /\ unwritable = {}

Init == InitStore /\ InitRun

\* ------------------------------------------- setup_server_database
\* The filter of setup_server_database on a D0 entry.
ServerAccepts(n) ==
    /\ is_regular_file(fs, D0Path(n))
    /\ extension(n) = <<".", "t", "x", "t">>
    /\ Len(NameChars(n)) >= 12
    /\ Len(NameChars(n)) >= 12 /\ Suffix(NameChars(n), 11) = BinaryTxtSuffix

\* The list setup_server_database builds from the entries in the order the
\* directory iterator yields them.
setup_server_database(order) == SelectSeq(order, ServerAccepts)

SetupServerDatabase ==
    /\ pc = "setup"
    /\ IF ~exists(fs, "D0")
       THEN /\ videoFiles' = <<>>
            /\ pc' = "exit"
            /\ outcome' = "no_videos"
       ELSE \E order \in Enumerations(D0Entries(fs)) :
            /\ videoFiles' = setup_server_database(order)
            /\ pc' = IF videoFiles' = <<>> THEN "exit" ELSE "prompt"
            /\ outcome' = IF videoFiles' = <<>> THEN "no_videos" ELSE outcome
    /\ UNCHANGED <<fs, unreadable, unwritable, Record, runs, stdin, targetIndex, query, serverResp,
                   accessLog, files, decoded, failures>>

\* ------------------------------------------------- the index prompt
\* std::cin >> targetIndex: the extraction fails on a word that is no number
\* and on a number that does not fit an int.
cin_extract(tok) ==
    IF tok.kind = "int"
    THEN [ok |-> TRUE, value |-> tok.value]
    ELSE [ok |-> FALSE, value |-> 0]

ReadTargetIndex ==
    /\ pc = "prompt"
    /\ LET got == cin_extract(Head(stdin))
           idx == IF got.ok THEN got.value ELSE 0
       IN  /\ stdin' = Tail(stdin)
           /\ targetIndex' = idx
           /\ IF idx < 0 \/ idx >= Len(videoFiles)
              THEN pc' = "exit" /\ outcome' = "invalid_index"
              ELSE pc' = "query" /\ outcome' = outcome
    /\ UNCHANGED <<fs, unreadable, unwritable, Record, runs, videoFiles, query, serverResp,
                   accessLog, files, decoded, failures>>

\* ------------------------------------------- client_generate_query
\* The vector client_generate_query returns: all zero, with a one at
\* targetIndex when that lies in [0, total).
client_generate_query(index, total) ==
    [i \in 1..total |-> IF index >= 0 /\ index < total /\ i = index + 1 THEN 1 ELSE 0]

GenerateQuery ==
    /\ pc = "query"
    /\ query' = client_generate_query(targetIndex, Len(videoFiles))
    /\ pc' = "server"
    /\ UNCHANGED <<fs, unreadable, unwritable, Record, runs, videoFiles, stdin, targetIndex,
                   serverResp, accessLog, files, decoded, outcome, failures>>

\* -------------------------------------------- server_process_query
\* The index the loop of server_process_query stops at: the first i below
\* videoFiles.size() with i < query.size() and query[i] == 1; -1 when the
\* loop runs to its end.
FirstSelected(q, vf) ==
    LET hits == {i \in 0..(Len(vf) - 1) : i < Len(q) /\ q[i + 1] = 1}
    IN  IF hits = {} THEN -1 ELSE CHOOSE i \in hits : \A j \in hits : i <= j

\* result[j] = (d0Bits[j] * r1[j] + d1Bits[j] * r2[j]) & 1 for j < bitLen,
\* bitLen being d0Bits.size().
MaskedSum(d0Bits, d1Bits, r1, r2) ==
    [j \in 1..Len(d0Bits) |-> (d0Bits[j] * r1[j] + d1Bits[j] * r2[j]) % 2]

\* The values d1Bits[j] may yield for j < bitLen: the bits of the file, and any
\* value at a position past the end of d1Bits.
D1Reads(d1Bits, bitLen) ==
    {g \in [1..bitLen -> Bit] : \A j \in 1..Min(bitLen, Len(d1Bits)) : g[j] = d1Bits[j]}

\* server_process_query returns: the response, the shares
\* read, the files as left, the failures met.
ServerReturn(resp, log, newfs, fails) ==
    /\ serverResp' = <<resp>>
    /\ accessLog' = log
    /\ fs' = newfs
    /\ failures' = failures \cup fails
    /\ pc' = "client"
    /\ outcome' = outcome

\* The process ends inside server_process_query.
ServerCrash(log, fails) ==
    /\ serverResp' = serverResp
    /\ accessLog' = log
    /\ fs' = fs
    /\ failures' = failures \cup fails
    /\ pc' = "exit"
    /\ outcome' = "crashed"

\* The share reads of server_process_query(q, vf), in order: the D0 file of
\* the index the loop stops at, then, when that was read, its D1 file.
ShareReads(f, q, vf) ==
    LET sel == FirstSelected(q, vf)
    IN  IF sel < 0 THEN <<>>
        ELSE IF ~readBitsFile(f, D0Path(vf[sel + 1])).ok THEN <<(<<sel, "D0">>)>>
        ELSE <<(<<sel, "D0">>), (<<sel, "D1">>)>>

ServerProcessQuery ==
    /\ pc = "server"
    /\ LET sel == FirstSelected(query, videoFiles)
           log == ShareReads(fs, query, videoFiles)
       IN  IF sel < 0
           THEN ServerReturn(<<>>, log, fs, {})
           ELSE
           LET videoFile == videoFiles[sel + 1]
               d0 == readBitsFile(fs, D0Path(videoFile))
               d1 == readBitsFile(fs, D1Path(videoFile))
               bitLen == Len(d0.bits)
               mismatch == IF Len(d1.bits) # bitLen THEN {"length_mismatch"} ELSE {}
           IN  IF ~d0.ok
               THEN ServerReturn(<<>>, log, fs, {"read_d0"})
               ELSE IF ~d1.ok
               THEN ServerReturn(<<>>, log, fs, {"read_d1"})
               ELSE \E r1 \in [1..bitLen -> Bit] : \E r2 \in [1..bitLen -> Bit] :
                   \/ \E d1Bits \in D1Reads(d1.bits, bitLen) :
                      LET result == MaskedSum(d0.bits, d1Bits, r1, r2)
                          saved1 == writeBitsFile(fs, R1Path, r1)
                          saved2 == writeBitsFile(saved1, R2Path, r2)
                      IN  IF ~opens_for_writing(R1Path)
                          THEN ServerReturn(d0.bits, log, fs, mismatch \cup {"write_r1"})
                          ELSE IF ~opens_for_writing(R2Path)
                          THEN ServerReturn(d0.bits, log, saved1, mismatch \cup {"write_r2"})
                          ELSE ServerReturn(result, log, saved2, mismatch)
                   \/ /\ Len(d1.bits) < bitLen
                      /\ ServerCrash(log, mismatch)
    /\ UNCHANGED <<unreadable, unwritable, Record, runs, videoFiles, stdin, targetIndex,
                   query, files, decoded>>

\* ---------------------------------------- client_decode_pir_result
\* The filter of client_decode_pir_result on a D0 entry, over the files f.
ClientAccepts(f, n) ==
    /\ is_regular_file(f, D0Path(n))
    /\ n \in BinaryTxtNames

\* The sorted list of D0 files either branch of client_decode_pir_result
\* builds, as names.
ClientFiles(f) == SortNames({n \in D0Entries(f) : ClientAccepts(f, n)})

\* Either branch's tail: the bits of files[targetIndex], empty when the index
\* is past the list or the file cannot be read.
OriginalBits(f, index) ==
    LET list == ClientFiles(f)
    IN  IF index >= Len(list) THEN <<>>
        ELSE readBitsFile(f, D0Path(list[index + 1])).bits

\* A decode that hands back the server's response once the masks are there.
client_decode_from_response(f, serverResponse, index) ==
    IF ~exists(f, R1Path) \/ ~exists(f, R2Path)
    THEN OriginalBits(f, index)
    ELSE serverResponse

\* client_decode_pir_result(serverResponse, targetIndex), over the files f.
client_decode_pir_result(f, serverResponse, index) ==
    IF ~exists(f, R1Path) \/ ~exists(f, R2Path)
    THEN OriginalBits(f, index)
    ELSE LET r1 == readBitsFile(f, R1Path).bits
             r2 == readBitsFile(f, R2Path).bits
         IN  OriginalBits(f, index)

\* ---------------------------------------- client_reconstruct_video
ClientReconstructVideo ==
    /\ pc = "client"
    /\ LET bits == client_decode_pir_result(fs, serverResp[1], targetIndex)
           saved == writeBitsFile(fs, BitsPath, bits)
           list == ClientFiles(fs)
           readFail == IF targetIndex < Len(list)
                          /\ ~readBitsFile(fs, D0Path(list[targetIndex + 1])).ok
                       THEN {"read_original"} ELSE {}
       IN  /\ files' = [i \in 1..Len(list) |-> D0Path(list[i])]
           /\ decoded' = <<bits>>
           /\ IF ~opens_for_writing(BitsPath)
              THEN \* convert_bits_to_video_direct
                   IF ~opens_for_writing(VideoPath)
                   THEN /\ fs' = fs
                        /\ outcome' = "failed"
                        /\ failures' = failures \cup readFail \cup {"write_bits", "write_video"}
                   ELSE /\ fs' = writeBitsAsBinaryVideo(fs, VideoPath, bits)
                        /\ outcome' = "completed"
                        /\ failures' = failures \cup readFail \cup {"write_bits"}
              ELSE \* convertBitsFileToBinaryVideo
                   IF BitsPath \in unreadable \/ ~opens_for_writing(VideoPath)
                   THEN /\ fs' = saved
                        /\ outcome' = "failed"
                        /\ failures' = failures \cup readFail \cup {"write_video"}
                   ELSE /\ fs' = convertBitsFileToBinaryVideo(saved, BitsPath, VideoPath)
                        /\ outcome' = "completed"
                        /\ failures' = failures \cup readFail
    /\ pc' = "exit"
    /\ UNCHANGED <<unreadable, unwritable, Record, runs, videoFiles, stdin, targetIndex, query,
                   serverResp, accessLog>>

\* ---------------------------------------------------------- main
\* main() is started again over the files the last run left.
Rerun ==
    /\ pc = "exit"
    /\ runs < MaxRuns
    /\ runs' = runs + 1
    /\ pc' = "setup"
    /\ videoFiles' = <<>>
    /\ \E tok \in Tokens : stdin' = <<tok>>
    /\ targetIndex' = 0
    /\ query' = <<>>
    /\ serverResp' = <<>>
    /\ accessLog' = <<>>
    /\ files' = <<>>
    /\ decoded' = <<>>
    /\ outcome' = "running"
    /\ failures' = {}
    /\ UNCHANGED <<fs, unreadable, unwritable, Record>>

Next ==
    \/ SetupServerDatabase
    \/ ReadTargetIndex
    \/ GenerateQuery
    \/ ServerProcessQuery
    \/ ClientReconstructVideo

Spec == Init /\ [][Next]_vars

NextRuns == Next \/ Rerun

\* Runs of main() one after the other over the same working directory.
SpecRuns == Init /\ [][NextRuns]_vars

\* ------------------------------------------- a store gone wrong
\* What may be wrong with the working directory when main() starts: a share
\* file of D1 missing, a share file cut short by one character, a share file
\* that cannot be opened, or files that cannot be written.
Faults(S) ==
    {[kind |-> "missing", paths |-> {D1Path(n)}] : n \in S}
        \cup {[kind |-> "truncated", paths |-> {p}] : p \in {D0Path(n) : n \in S} \cup {D1Path(n) : n \in S}}
        \cup {[kind |-> "unreadable", paths |-> {p}] : p \in {D0Path(n) : n \in S} \cup {D1Path(n) : n \in S}}
        \cup {[kind |-> "unwritable", paths |-> W] : W \in SUBSET CwdPaths \ {{}}}

\* The files f with the fault in them.
Damaged(f, fault) ==
    [p \in AllPaths |->
        IF p \notin fault.paths THEN f[p]
        ELSE IF fault.kind = "missing" THEN NoFile
        ELSE IF fault.kind = "truncated" /\ f[p].data # <<>>
        THEN RegularFile(SubSeq(f[p].data, 1, Len(f[p].data) - 1))
        ELSE f[p]]

InitFault ==
    /\ InitRun
    /\ \E S \in {T \in SUBSET Names : Cardinality(T) <= MaxFiles} :
       \E setup \in Setups({n \in S : IsShareName(n)}, MaxBits) :
       \E fault \in Faults({n \in S : IsShareName(n)}) :
        LET rec == [n \in {m \in S : IsShareName(m)} |-> setup[n].record]
            rnd == [n \in {m \in S : IsShareName(m)} |-> setup[n].random]
        IN  /\ Record = rec
            /\ fs = Damaged(StoreFiles(TRUE, S, rec, rnd), fault)
            /\ unreadable = IF fault.kind = "unreadable" THEN fault.paths ELSE {}
            /\ unwritable = IF fault.kind = "unwritable" THEN fault.paths ELSE {}

SpecFault == InitFault /\ [][Next]_vars

\* ------------------------------------ client_generate_query alone
\* Longest vector client_generate_query is asked for.
MaxTotal == 5

\* main() about to call client_generate_query(targetIndex, videoFiles.size()),
\* for any targetIndex and any size.
InitEncode ==
    /\ InitRun
    /\ Record = <<>>
    /\ fs = StoreFiles(TRUE, {}, <<>>, <<>>)
    /\ unreadable = {}
    /\ unwritable = {}

EncodeCall ==
    /\ pc = "setup"
    /\ \E index \in -2..(MaxTotal + 2) : \E total \in 0..MaxTotal :
        /\ targetIndex' = index
        /\ videoFiles' = [i \in 1..total |-> "a.binary.txt"]
    /\ pc' = "query"
    /\ UNCHANGED <<fs, unreadable, unwritable, Record, runs, stdin, query, serverResp,
                   accessLog, files, decoded, outcome, failures>>

NextEncode == EncodeCall \/ GenerateQuery

SpecEncode == InitEncode /\ [][NextEncode]_vars

\* ============================================================ claims
Range(q) == {q[i] : i \in 1..Len(q)}

\* The run has come back from server_process_query.
ServerReturned == serverResp # <<>>

\* The run has come back from client_decode_pir_result.
ClientDecoded == decoded # <<>>

\* The share of the i-th listed video a replica holds ("D0" or "D1").
ShareOf(folder, i) ==
    readBitsFile(fs, (IF folder = "D0" THEN D0Path(videoFiles[i]) ELSE D1Path(videoFiles[i]))).bits

RECURSIVE MaxOver(_)
MaxOver(S) ==
    IF S = {} THEN 0
    ELSE LET x == CHOOSE y \in S : TRUE IN Max(x, MaxOver(S \ {x}))

RECURSIVE XorUpTo(_, _)
XorUpTo(f, n) == IF n = 0 THEN 0 ELSE Xor(f[n], XorUpTo(f, n - 1))

\* The GF(2) inner product of a selection vector with a replica's shares:
\* per bit position below the longest share, the XOR over all i of
\* selection[i] AND share_i[j], a share too short counting as 0 there.
Evaluate(selection, folder) ==
    LET n == Len(videoFiles)
        width == MaxOver({Len(ShareOf(folder, i)) : i \in 1..n})
    IN  [j \in 1..width |->
            XorUpTo([i \in 1..n |->
                        IF j <= Len(ShareOf(folder, i))
                        THEN selection[i] * ShareOf(folder, i)[j] ELSE 0], n)]

\* C1: a query for a valid index k reconstructs exactly Record[k]: once the
\* client has decoded, the decoded record is the record of the k-th video of
\* the server's list, whatever masks were drawn.
C1_QueryReconstructsRecord ==
    (pc = "exit" /\ ClientDecoded) => decoded[1] = Record[videoFiles[targetIndex + 1]]

\* C2: obliviousness: the share reads of server_process_query are the same
\* sequence for every valid index of the database, and they visit every
\* record index.
C2_ObliviousReads ==
    ServerReturned =>
        /\ \A k \in 0..(Len(videoFiles) - 1) :
              ShareReads(fs, client_generate_query(k, Len(videoFiles)), videoFiles) = accessLog
        /\ {e[1] : e \in Range(accessLog)} = 0..(Len(videoFiles) - 1)

\* C3: the response of the evaluator is the inner product of the selection
\* vector with the shares of a replica, as long as the longest record.
C3_ResponseIsInnerProduct ==
    ServerReturned =>
        \/ serverResp[1] = Evaluate(query, "D0")
        \/ serverResp[1] = Evaluate(query, "D1")

ServerFailures == {"read_d0", "read_d1", "length_mismatch", "write_r1", "write_r2"}

\* C5: a storage or integrity failure makes the query fail and abort: after a
\* failure inside server_process_query no response is handed to the client
\* and nothing is decoded, and a run that met any failure does not end by
\* reporting success.
C5_FailureAbortsQuery ==
    /\ (failures \cap ServerFailures # {}) => (pc # "client" /\ ~ClientDecoded)
    /\ (failures # {} /\ pc = "exit") => outcome # "completed"

\* C6: the encoder fails on an index outside [0, n): it returns a selection
\* vector only for 0 <= index < n.
C6_EncodeRejectsInvalidIndex ==
    (pc = "server") => (targetIndex >= 0 /\ targetIndex < Len(videoFiles))

\* The index typed at the prompt is a number outside [0, n).
RequestOutOfRange ==
    /\ stdin # <<>>
    /\ \/ Head(stdin).kind = "huge"
       \/ /\ Head(stdin).kind = "int"
          /\ (Head(stdin).value < 0 \/ Head(stdin).value >= Len(videoFiles))

\* C7: a run whose requested index is outside [0, n) ends at the prompt, as
\* an invalid index: it never goes on to the query, the server evaluation or
\* a share read.
C7_InvalidIndexEndsRun ==
    [][(pc = "prompt" /\ RequestOutOfRange) => (pc' = "exit" /\ outcome' = "invalid_index")]_vars

\* C8: over any sequence of queries no mask is written to a file: r1.txt and
\* r2.txt never exist, so none is there when a later query runs.
C8_NoMaskOnDisk == ~exists(fs, R1Path) /\ ~exists(fs, R2Path)

\* C9: index agreement: the list of files the client decodes from is the list
\* the server evaluates, same length and same file at every index.
C9_ListsAgree ==
    (pc = "exit" /\ ClientDecoded) =>
        files = [i \in 1..Len(videoFiles) |-> D0Path(videoFiles[i])]

\* The states r1.txt or r2.txt may be in: absent, or holding any bits.
MaskFiles == {NoFile} \cup {RegularFile(BitsToText(b)) : b \in BitSeqs(MaxBits)}

\* C10: the decoded record is a function of D0 and the target index alone:
\* what the run decoded is what client_decode_pir_result returns for every
\* server response and every content, or absence, of r1.txt and r2.txt.
C10_DecodeIgnoresResponseAndMasks ==
    (pc = "exit" /\ ClientDecoded) =>
        \A resp \in BitSeqs(MaxBits) : \A m1 \in MaskFiles : \A m2 \in MaskFiles :
            client_decode_pir_result([fs EXCEPT ![R1Path] = m1, ![R2Path] = m2],
                                     resp, targetIndex) = decoded[1]

\* C10's case: the client decoded a record that is not empty and is not the
\* response the server returned, with both mask files there.
C10_Witness ==
    /\ pc = "exit" /\ ClientDecoded /\ ServerReturned
    /\ decoded[1] # <<>>
    /\ serverResp[1] # decoded[1]
    /\ exists(fs, R1Path) /\ exists(fs, R2Path)

====
